---- MODULE Spec2Model ----
(***************************************************************************)
(* State-machine model of src/src/App.tsx (Digital Asset Registry client). *)
(*                                                                         *)
(* The React component's state hooks are the variables; every async        *)
(* handler (connectWallet, connectContract, registerAsset,                 *)
(* transferOwnership, verifyAsset, loadAssets) is a task that advances one *)
(* await at a time.  A task keeps the values its closure captured when the *)
(* handler was invoked (the contract handle, the form fields).  The ledger *)
(* (the deployed DigitalAssetRegistry contract) and the wallet are the     *)
(* environment: every awaited call may resolve or reject.                  *)
(*                                                                         *)
(* Spec is the whole component.  FairSpec keeps the handlers that set,     *)
(* hold or clear the loading flag and adds weak fairness of the pending    *)
(* calls of a mutating operation; the liveness claim is checked under it.  *)
(* AuditSpec runs the same handlers as FairSpec and records history: what  *)
(* a call saw when it started and what the ledger did while it ran.        *)
(***************************************************************************)
EXTENDS Integers, Sequences, FiniteSets, TLC

\* ------------------------------------------------------------- bounds
MaxAssets == 2      \* registrations the ledger accepts in a run
MaxTasks == 2       \* handlers suspended at an await at the same time
MaxListeners == 2   \* accountsChanged listeners installed in a run

Addresses == {"0xAA", "0xBB"}
Names == {"Deed"}
Hashes == {"0xabc"}
\* Verify form inputs <<id, hash>>: the registered hash, another hash, and an
\* id no asset has (Number("") is 0).
VerifyInputs == {<<1, "0xabc">>, <<1, "0xdef">>, <<0, "0xabc">>}
IdentityLists == {<<>>, <<"0xAA">>, <<"0xBB", "0xAA">>}
AssetIds == 1 .. MaxAssets      \* ids above the current assetCount occur

Null == "null"

\* A Contract handle is the signer it was constructed with (CONTRACT_ADDRESS
\* and CONTRACT_ABI are fixed); NullContract is the state hook's null.
NullContract == [bound |-> FALSE, signer |-> Null]
NewContract(s) == [bound |-> TRUE, signer |-> s]

\* ------------------------------------------------------------- messages
\* A status message is its leading icon and its text (App.tsx builds every
\* message as icon + text [+ error.message]).
Msg(icon, text) == [icon |-> icon, text |-> text]
NoMessage == Msg("none", "")
MsgNoMetaMask == Msg("warn", "MetaMask not detected. Please install it.")
MsgWalletConnected == Msg("check", "Wallet connected successfully!")
MsgWalletError == Msg("cross", "Error connecting wallet")
MsgConnectWalletFirst == Msg("warn", "Connect wallet first!")
MsgContractConnected == Msg("check", "Connected to contract!")
MsgRegistered == Msg("check", "Asset registered successfully!")
MsgRegisterError == Msg("cross", "Error registering asset")
MsgTransferred == Msg("check", "Ownership transferred!")
MsgTransferError == Msg("cross", "Error transferring ownership")
MsgHashValid == Msg("check", "Asset hash is valid!")
MsgHashMismatch == Msg("cross", "Asset hash mismatch!")
MsgVerifyError == Msg("cross", "Error verifying asset")
MsgLoadError == Msg("cross", "Error loading assets")

\* The class of the status banner: "error" when the message includes the
\* cross mark, "success" otherwise.  Only the cross icon the code itself puts
\* in front of a text contains that character.
Severity(m) == IF m.icon = "cross" THEN "error" ELSE "success"

VARIABLES
    ethereum,   \* window.ethereum is present
    listeners,  \* accountsChanged listeners registered on window.ethereum
    provider,   \* useState provider: TRUE once set
    signer,     \* useState signer: Null or the address the signer signs for
    contract,   \* useState contract: NullContract or NewContract(signer)
    account,    \* useState account: "" or an address
    assets,     \* useState assets: the catalog snapshot
    message,    \* useState message
    loading,    \* useState loading
    ledger,     \* the registry contract's assets, in registration order
    tasks,      \* the async handlers suspended at an await
    ignored,    \* why the last UI event was dropped, when it was a click on a
                \* disabled button; NoClick after any other event
    audit       \* history kept for the catalog claims (see the audit section)

vars == <<ethereum, listeners, provider, signer, contract, account, assets,
          message, loading, ledger, tasks, ignored, audit>>

NoClick == "none"

\* ------------------------------------------------------------- tasks
Mutating == {"registerAsset", "transferOwnership"}

NoArgs == [name |-> "", hash |-> "", id |-> 0, to |-> ""]

\* loadAssets' local list: `const list: Asset[] = []`.
\* A loadAssets that goes on pushing onto the list on display.
NewListKeepsSnapshot == assets

NewList == <<>>

\* What a handler has not recorded (h is history, see the audit section).
NoHistory == [snap |-> <<>>, before |-> <<>>, args |-> NoArgs, seen |-> {}]

Task(kind, pc, c, args) ==
    [kind |-> kind, pc |-> pc, c |-> c, args |-> args,
     count |-> 0, i |-> 0, list |-> <<>>, h |-> NoHistory]

RemoveAt(s, k) == [j \in 1 .. Len(s) - 1 |-> IF j < k THEN s[j] ELSE s[j + 1]]

CanSpawn == Len(tasks) < MaxTasks

InFlight(kinds) == {k \in 1 .. Len(tasks) : tasks[k].kind \in kinds}

\* The awaits of loadAssets: contract.assetCount(), contract.getAsset(i).
Loading == {"assetCount", "getAsset"}

\* ------------------------------------------------------------- audit
\* History variables.  They are written, never read, by the handlers, and
\* only in behaviours that start with auditing on (AuditSpec):
\*   audit.shown   the highest asset id n such that the registerAsset call
\*                 that created asset n has installed, by its own refresh, a
\*                 snapshot of at least n entries;
\*   audit.clean   the snapshot on display was installed by a refresh during
\*                 which the ledger did not change, and the ledger has not
\*                 changed since;
\*   h.snap, h.before, h.args   of a registerAsset/transferOwnership handler:
\*                 the snapshot, the ledger and the form fields at the click;
\*   h.seen        of a handler inside loadAssets: the ledger states there
\*                 have been since loadAssets was called.
NoAudit == [on |-> FALSE, shown |-> 0, clean |-> FALSE]

AtClick(t) ==
    IF audit.on
    THEN [t EXCEPT !.h = [snap |-> assets, before |-> ledger,
                          args |-> t.args, seen |-> {}]]
    ELSE t

StartsReading(t) ==
    IF audit.on THEN [t EXCEPT !.h.seen = {ledger}] ELSE t

LedgerBecomes(ts, l) ==
    IF audit.on
    THEN [j \in 1 .. Len(ts) |->
             IF ts[j].pc \in Loading
             THEN [ts[j] EXCEPT !.h.seen = @ \union {l}]
             ELSE ts[j]]
    ELSE ts

Max(a, b) == IF a >= b THEN a ELSE b

\* The handler tasks[k] installs the list it fetched as the new snapshot.
AuditInstall(k, list) ==
    IF audit.on
    THEN LET t == tasks[k]
             n == Len(t.h.before) + 1
         IN  [audit EXCEPT
                 !.clean = (t.h.seen = {ledger}),
                 !.shown = IF t.kind = "registerAsset" /\ Len(list) >= n
                           THEN Max(@, n) ELSE @]
    ELSE audit

\* ------------------------------------------------------------- ledger
\* The DigitalAssetRegistry contract behind CONTRACT_ABI: append-only assets
\* with dense 1-based ids; registerAsset records the sender as owner,
\* transferOwnership is accepted from the current owner only.
LedgerRegister(l, name, hash, sender) ==
    Append(l, [name |-> name, hash |-> hash, owner |-> sender,
               timestamp |-> Len(l) + 1])

LedgerCanTransfer(l, id, sender) == id \in 1 .. Len(l) /\ l[id].owner = sender

LedgerTransfer(l, id, to) == [l EXCEPT ![id].owner = to]

LedgerVerify(l, id, hash) == l[id].hash = hash

\* ------------------------------------------------------------- UI guards
ConnectContractDisabled == signer = Null

\* Register button whose disabled attribute forgets the loading flag.
RegisterDisabledIgnoresLoading == ~contract.bound

RegisterDisabled == ~contract.bound \/ loading

TransferDisabled == ~contract.bound \/ loading

VerifyDisabled == ~contract.bound

RefreshDisabled == ~contract.bound

\* ------------------------------------------------------------- Init
\* The mount effect: connectWallet() runs once when window.ethereum exists
\* and is suspended at provider.getSigner().
AutoConnect ==
    IF ethereum
    THEN <<Task("connectWallet", "getSigner", NullContract, NoArgs)>>
    ELSE <<>>

Mounted ==
    /\ ethereum \in BOOLEAN
    /\ listeners = 0
    /\ provider = FALSE
    /\ signer = Null
    /\ contract = NullContract
    /\ account = ""
    /\ assets = <<>>
    /\ message = NoMessage
    /\ loading = FALSE
    /\ ledger = <<>>
    /\ tasks = AutoConnect
    /\ ignored = NoClick

Init == Mounted /\ audit = NoAudit

InitAudit == Mounted /\ audit = [NoAudit EXCEPT !.on = TRUE]

\* ------------------------------------------------------------- finishing
\* The handler returns; registerAsset and transferOwnership run their
\* finally block (setLoading(false)) on every path out of the try.
\* A handler without the finally block: loading is never reset.
LoadingWithoutFinally(kind) == loading

LoadingAfterFinally(kind) == IF kind \in Mutating THEN FALSE ELSE loading

Finish(k) ==
    /\ tasks' = RemoveAt(tasks, k)
    /\ loading' = LoadingAfterFinally(tasks[k].kind)

\* ------------------------------------------------------------- connectWallet
\* connectWallet's first test: `if (!window.ethereum)`.
\* A connectWallet that goes on without testing for the provider.
ProviderCheckSkipped == FALSE

ProviderMissing == ~ethereum

ClickConnectWallet ==
    /\ ignored' = NoClick
    /\ IF ProviderMissing
       THEN /\ message' = MsgNoMetaMask
            /\ UNCHANGED tasks
       ELSE /\ CanSpawn
            /\ listeners + Cardinality(InFlight({"connectWallet"})) < MaxListeners
            /\ tasks' = Append(tasks, Task("connectWallet", "getSigner", NullContract, NoArgs))
            /\ UNCHANGED message
    /\ UNCHANGED <<audit, ethereum, listeners, provider, signer, contract, account,
                   assets, loading, ledger>>

\* provider.getSigner() and signer.getAddress() resolved.  Between the two
\* awaits the handler holds only locals and sets nothing, so they are one
\* step; a rejection of either one is ConnectWalletRejects.
GetSignerResolves(k) ==
    /\ tasks[k].kind = "connectWallet" /\ tasks[k].pc = "getSigner"
    /\ \E address \in Addresses :
          /\ signer' = address
          /\ account' = address
    /\ provider' = TRUE
    /\ listeners' = listeners + 1
    /\ message' = MsgWalletConnected
    /\ Finish(k)
    /\ ignored' = NoClick
    /\ UNCHANGED <<audit, ethereum, contract, assets, ledger>>

ConnectWalletRejects(k) ==
    /\ tasks[k].kind = "connectWallet"
    /\ message' = MsgWalletError
    /\ Finish(k)
    /\ ignored' = NoClick
    /\ UNCHANGED <<audit, ethereum, listeners, provider, signer, contract, account,
                   assets, ledger>>

\* The accountsChanged listener: setAccount(accounts[0] || "").
FirstOrEmpty(accounts) == IF Len(accounts) > 0 THEN accounts[1] ELSE ""

AccountsChanged(accounts) ==
    /\ listeners > 0
    /\ account' = FirstOrEmpty(accounts)
    /\ ignored' = NoClick
    /\ UNCHANGED <<audit, ethereum, listeners, provider, signer, contract, assets,
                   message, loading, ledger, tasks>>

\* ------------------------------------------------------------- connectContract
ClickConnectContract ==
    /\ ~ConnectContractDisabled
    /\ signer # Null
    /\ CanSpawn
    /\ contract' = NewContract(signer)
    /\ message' = MsgContractConnected
    /\ tasks' = Append(tasks, StartsReading(Task("connectContract", "assetCount",
                                                 NewContract(signer), NoArgs)))
    /\ ignored' = NoClick
    /\ UNCHANGED <<audit, ethereum, listeners, provider, signer, account, assets,
                   loading, ledger>>

\* ------------------------------------------------------------- loadAssets
\* loadAssets(c) runs inside connectContract, registerAsset and
\* transferOwnership (awaited) and on its own from the Refresh button.

\* The loop numbering entries from 0 instead of the ledger's 1-based id.
AssetEntryZeroBased(i, a) ==
    [id |-> i - 1, name |-> a.name, hash |-> a.hash, owner |-> a.owner,
     timestamp |-> a.timestamp]

\* The loop reading the owner from the wrong position of the returned tuple.
AssetEntryOwnerFromHash(i, a) ==
    [id |-> i, name |-> a.name, hash |-> a.hash, owner |-> a.hash,
     timestamp |-> a.timestamp]

AssetEntry(i, a) ==
    [id |-> i, name |-> a.name, hash |-> a.hash, owner |-> a.owner,
     timestamp |-> a.timestamp]

\* What the catch block of loadAssets leaves in the assets hook: it only
\* calls setMessage, the partial local list is dropped.
\* A catch block that publishes what was fetched before the failure.
AssetsAfterLoadFailurePartial(old, list) == list

AssetsAfterLoadFailure(old, list) == old

ClickRefresh ==
    /\ ~RefreshDisabled
    /\ contract.bound
    /\ CanSpawn
    /\ tasks' = Append(tasks, StartsReading(Task("loadAssets", "assetCount",
                                                 contract, NoArgs)))
    /\ ignored' = NoClick
    /\ UNCHANGED <<audit, ethereum, listeners, provider, signer, contract, account,
                   assets, message, loading, ledger>>

AssetCountResolves(k) ==
    /\ tasks[k].pc = "assetCount"
    /\ LET count == Len(ledger) IN
       IF count = 0
       THEN /\ assets' = NewList
            /\ audit' = AuditInstall(k, NewList)
            /\ Finish(k)
       ELSE /\ tasks' = [tasks EXCEPT ![k].pc = "getAsset", ![k].count = count,
                                      ![k].i = 1, ![k].list = NewList]
            /\ UNCHANGED <<assets, loading, audit>>
    /\ ignored' = NoClick
    /\ UNCHANGED <<ethereum, listeners, provider, signer, contract, account,
                   message, ledger>>

GetAssetResolves(k) ==
    /\ tasks[k].pc = "getAsset"
    /\ tasks[k].i \in 1 .. Len(ledger)
    /\ LET t == tasks[k]
           list == Append(t.list, AssetEntry(t.i, ledger[t.i]))
       IN  IF t.i = t.count
           THEN /\ assets' = list
                /\ audit' = AuditInstall(k, list)
                /\ Finish(k)
           ELSE /\ tasks' = [tasks EXCEPT ![k].i = t.i + 1, ![k].list = list]
                /\ UNCHANGED <<assets, loading, audit>>
    /\ ignored' = NoClick
    /\ UNCHANGED <<ethereum, listeners, provider, signer, contract, account,
                   message, ledger>>

LoadRejects(k) ==
    /\ tasks[k].pc \in Loading
    /\ message' = MsgLoadError
    /\ assets' = AssetsAfterLoadFailure(assets, tasks[k].list)
    /\ Finish(k)
    /\ ignored' = NoClick
    /\ UNCHANGED <<audit, ethereum, listeners, provider, signer, contract, account,
                   ledger>>

\* ------------------------------------------------------------- mutations
ErrorMessage(kind) ==
    IF kind = "registerAsset" THEN MsgRegisterError ELSE MsgTransferError

SuccessMessage(kind) ==
    IF kind = "registerAsset" THEN MsgRegistered ELSE MsgTransferred

\* Where the handler goes from the catch block: straight to finally.
\* A catch block that refreshes the catalog before leaving.
PcAfterRejectedRefreshes == "assetCount"

PcAfterRejected == "finally"

\* Where the handler goes once the submission resolved: `await tx.wait()`.
\* A handler that does not wait for the transaction before it goes on.
PcAfterSubmittedSkipsWait == "assetCount"

PcAfterSubmitted == "wait"

\* Where the handler goes after tx.wait() resolved and setMessage ran.
PcAfterConfirmed == "assetCount"

Continue(k, pc) ==
    IF pc = "finally"
    THEN Finish(k)
    ELSE /\ tasks' = [tasks EXCEPT ![k] = IF pc \in Loading
                                          THEN StartsReading([@ EXCEPT !.pc = pc])
                                          ELSE [@ EXCEPT !.pc = pc]]
         /\ UNCHANGED loading

\* The first statement of the try block: setLoading(true).
\* A handler that forgets to raise the flag.
LoadingOnStartForgotten == loading

LoadingOnStart == TRUE

PendingRegisters ==
    {k \in InFlight({"registerAsset"}) : tasks[k].pc \in {"submit", "wait"}}

ClickRegister(name, hash) ==
    /\ ~RegisterDisabled
    /\ contract.bound
    /\ CanSpawn
    /\ Len(ledger) + Cardinality(PendingRegisters) < MaxAssets
    /\ loading' = LoadingOnStart
    /\ tasks' = Append(tasks, AtClick(Task("registerAsset", "submit", contract,
                                   [NoArgs EXCEPT !.name = name, !.hash = hash])))
    /\ ignored' = NoClick
    /\ UNCHANGED <<audit, ethereum, listeners, provider, signer, contract, account,
                   assets, message, ledger>>

ClickTransfer(id, to) ==
    /\ ~TransferDisabled
    /\ contract.bound
    /\ CanSpawn
    /\ loading' = LoadingOnStart
    /\ tasks' = Append(tasks, AtClick(Task("transferOwnership", "submit", contract,
                                   [NoArgs EXCEPT !.id = id, !.to = to])))
    /\ ignored' = NoClick
    /\ UNCHANGED <<audit, ethereum, listeners, provider, signer, contract, account,
                   assets, message, ledger>>

\* contract.registerAsset(..) / contract.transferOwnership(..) resolved: the
\* wallet signed and the transaction is pending.
SubmitResolves(k) ==
    /\ tasks[k].kind \in Mutating /\ tasks[k].pc = "submit"
    /\ Continue(k, PcAfterSubmitted)
    /\ ignored' = NoClick
    /\ UNCHANGED <<audit, ethereum, listeners, provider, signer, contract, account,
                   assets, message, ledger>>

\* The ledger executes the pending transaction, or reverts it.  The call's
\* arguments travel with the transaction; the handler never reads them again.
Mine(k) ==
    /\ tasks[k].kind \in Mutating /\ tasks[k].pc = "wait"
    /\ LET t == tasks[k] IN
       IF t.kind = "registerAsset"
       THEN /\ ledger' = LedgerRegister(ledger, t.args.name, t.args.hash, t.c.signer)
            /\ tasks' = LedgerBecomes([tasks EXCEPT ![k].pc = "mined",
                                                    ![k].args = NoArgs], ledger')
            /\ audit' = [audit EXCEPT !.clean = FALSE]
       ELSE IF LedgerCanTransfer(ledger, t.args.id, t.c.signer)
       THEN /\ ledger' = LedgerTransfer(ledger, t.args.id, t.args.to)
            /\ tasks' = LedgerBecomes([tasks EXCEPT ![k].pc = "mined",
                                                    ![k].args = NoArgs], ledger')
            /\ audit' = [audit EXCEPT !.clean = FALSE]
       ELSE /\ tasks' = [tasks EXCEPT ![k].pc = "reverted", ![k].args = NoArgs]
            /\ UNCHANGED <<ledger, audit>>
    /\ ignored' = NoClick
    /\ UNCHANGED <<ethereum, listeners, provider, signer, contract, account,
                   assets, message, loading>>

\* tx.wait() resolved: setMessage(success), then loadAssets(contract).
WaitResolves(k) ==
    /\ tasks[k].kind \in Mutating /\ tasks[k].pc = "mined"
    /\ message' = SuccessMessage(tasks[k].kind)
    /\ Continue(k, PcAfterConfirmed)
    /\ ignored' = NoClick
    /\ UNCHANGED <<audit, ethereum, listeners, provider, signer, contract, account,
                   assets, ledger>>

\* The submission or the finality wait rejected: catch, then finally.
MutationRejects(k) ==
    /\ tasks[k].kind \in Mutating
    /\ tasks[k].pc \in {"submit", "wait", "mined", "reverted"}
    /\ message' = ErrorMessage(tasks[k].kind)
    /\ Continue(k, PcAfterRejected)
    /\ ignored' = NoClick
    /\ UNCHANGED <<audit, ethereum, listeners, provider, signer, contract, account,
                   assets, ledger>>

\* ------------------------------------------------------------- verifyAsset
ClickVerify(id, hash) ==
    /\ ~VerifyDisabled
    /\ contract.bound
    /\ CanSpawn
    /\ tasks' = Append(tasks, Task("verifyAsset", "verify", contract,
                                   [NoArgs EXCEPT !.id = id, !.hash = hash]))
    /\ ignored' = NoClick
    /\ UNCHANGED <<audit, ethereum, listeners, provider, signer, contract, account,
                   assets, message, loading, ledger>>

VerifyResolves(k) ==
    /\ tasks[k].kind = "verifyAsset"
    /\ tasks[k].args.id \in 1 .. Len(ledger)
    /\ message' = IF LedgerVerify(ledger, tasks[k].args.id, tasks[k].args.hash)
                  THEN MsgHashValid ELSE MsgHashMismatch
    /\ Finish(k)
    /\ ignored' = NoClick
    /\ UNCHANGED <<audit, ethereum, listeners, provider, signer, contract, account,
                   assets, ledger>>

VerifyRejects(k) ==
    /\ tasks[k].kind = "verifyAsset"
    /\ message' = MsgVerifyError
    /\ Finish(k)
    /\ ignored' = NoClick
    /\ UNCHANGED <<audit, ethereum, listeners, provider, signer, contract, account,
                   assets, ledger>>

\* ------------------------------------------------------------- dropped clicks
\* A click on a disabled button runs no handler: nothing is set, nothing is
\* reported.  (Called directly, the handlers return at `if (!contract) return`
\* with the same effect.)
Disabled(op) ==
    CASE op = "connectContract" -> ConnectContractDisabled
      [] op = "registerAsset" -> RegisterDisabled
      [] op = "transferOwnership" -> TransferDisabled
      [] op = "verifyAsset" -> VerifyDisabled
      [] op = "loadAssets" -> RefreshDisabled

WhyDisabled(op) ==
    IF op = "connectContract" THEN "nosigner"
    ELSE IF ~contract.bound THEN "nocontract" ELSE "loading"

Buttons == {"connectContract", "registerAsset", "transferOwnership",
            "verifyAsset", "loadAssets"}

ClickDisabled(op) ==
    /\ Disabled(op)
    /\ ignored' = WhyDisabled(op)
    /\ UNCHANGED <<audit, ethereum, listeners, provider, signer, contract, account,
                   assets, message, loading, ledger, tasks>>

\* ------------------------------------------------------------- Next
TaskIds == 1 .. Len(tasks)

Next ==
    \/ ClickConnectWallet
    \/ \E k \in TaskIds : GetSignerResolves(k)
    \/ \E k \in TaskIds : ConnectWalletRejects(k)
    \/ \E accounts \in IdentityLists : AccountsChanged(accounts)
    \/ ClickConnectContract
    \/ ClickRefresh
    \/ \E k \in TaskIds : AssetCountResolves(k)
    \/ \E k \in TaskIds : GetAssetResolves(k)
    \/ \E k \in TaskIds : LoadRejects(k)
    \/ \E name \in Names, hash \in Hashes : ClickRegister(name, hash)
    \/ \E id \in AssetIds, to \in Addresses : ClickTransfer(id, to)
    \/ \E k \in TaskIds : SubmitResolves(k)
    \/ \E k \in TaskIds : Mine(k)
    \/ \E k \in TaskIds : WaitResolves(k)
    \/ \E k \in TaskIds : MutationRejects(k)
    \/ \E input \in VerifyInputs : ClickVerify(input[1], input[2])
    \/ \E k \in TaskIds : VerifyResolves(k)
    \/ \E k \in TaskIds : VerifyRejects(k)
    \/ \E op \in Buttons : ClickDisabled(op)

Spec == Init /\ [][Next]_vars

\* ------------------------------------------------------------- fairness
\* A step of a handler that is suspended at an await: the awaited wallet or
\* ledger call resolves or rejects.
MutationStep(k) ==
    /\ tasks[k].kind \in Mutating
    /\ \/ SubmitResolves(k) \/ Mine(k) \/ WaitResolves(k) \/ MutationRejects(k)
       \/ AssetCountResolves(k) \/ GetAssetResolves(k) \/ LoadRejects(k)

\* The handlers that set, hold or clear the loading flag, with the reads that
\* may run beside them: wallet and contract connection, Register, Transfer,
\* Refresh.  (Verify, wallet re-connection, accountsChanged and dropped clicks
\* leave loading and the tasks of registerAsset/transferOwnership unchanged.)
TxNext ==
    \/ \E k \in TaskIds : GetSignerResolves(k)
    \/ \E k \in TaskIds : ConnectWalletRejects(k)
    \/ ClickConnectContract
    \/ ClickRefresh
    \/ \E k \in TaskIds : AssetCountResolves(k)
    \/ \E k \in TaskIds : GetAssetResolves(k)
    \/ \E k \in TaskIds : LoadRejects(k)
    \/ \E name \in Names, hash \in Hashes : ClickRegister(name, hash)
    \/ \E id \in AssetIds, to \in Addresses : ClickTransfer(id, to)
    \/ \E k \in TaskIds : SubmitResolves(k)
    \/ \E k \in TaskIds : Mine(k)
    \/ \E k \in TaskIds : WaitResolves(k)
    \/ \E k \in TaskIds : MutationRejects(k)

\* Every pending call of a mutating operation eventually resolves or rejects.
FairSpec ==
    Init /\ [][TxNext]_vars /\ WF_vars(\E k \in TaskIds : MutationStep(k))

\* The same handlers with the history of the audit section recorded; the
\* claims about what a refresh installs are checked under it.
AuditSpec == InitAudit /\ [][TxNext]_vars

\* ------------------------------------------------------------- claims
MutationsInFlight == InFlight(Mutating)

\* C1: in every reachable state at most one mutating operation
\* (registerAsset or transferOwnership) is between its submission and its
\* return to Idle, and while it is the loading flag is set, which keeps the
\* Register and Transfer buttons from submitting a second one.
C1_AtMostOneMutationInFlight ==
    /\ Cardinality(MutationsInFlight) <= 1
    /\ MutationsInFlight # {} => loading

\* C1 witness: an operation is in flight and a second Register/Transfer click
\* has just been dropped because of the loading flag.
C1_Witness ==
    /\ Cardinality(MutationsInFlight) = 1
    /\ ignored = "loading"

\* C2 (as claimed): the success outcome of a mutating operation is never on
\* display while that operation's post-confirmation refresh is still running.
C2_SuccessOnlyAfterRefresh ==
    \A k \in MutationsInFlight :
        tasks[k].pc \in Loading => message # SuccessMessage(tasks[k].kind)

\* C3 (as claimed): a Register/Transfer click while the loading flag is set
\* yields the outcome Failure{OperationInProgress}.
MsgOperationInProgress == Msg("cross", "OperationInProgress")

C3_BusyClickReportsInProgress ==
    ignored = "loading" => message = MsgOperationInProgress

\* C4: every mutating operation that set the loading flag eventually clears
\* it again, whatever its outcome, provided its pending calls resolve or
\* reject; and a rejection ends the operation, nothing is resubmitted.
C4_BusyLeadsToIdle ==
    /\ loading ~> ~loading
    /\ [][\A k \in TaskIds :
             MutationRejects(k) =>
                 \A j \in 1 .. Len(tasks') : tasks'[j].kind \notin Mutating]_vars

\* C4 witness: an operation was rejected and the coordinator is idle again.
C4_Witness ==
    /\ ~loading
    /\ MutationsInFlight = {}
    /\ message \in {MsgRegisterError, MsgTransferError}

\* C5 (as claimed): a mutating operation is never submitted through a
\* contract handle that was built for an identity other than the current one.
StartsMutation ==
    /\ Len(tasks') = Len(tasks) + 1
    /\ tasks'[Len(tasks')].kind \in Mutating

C5_NoSubmitThroughStaleBinding ==
    [][StartsMutation => tasks'[Len(tasks')].c.signer = account]_vars

\* C6 (as claimed): the active address is present exactly when the session
\* is connected, i.e. exactly when a signing handle is held.
C6_AddressIffConnected == (account # "") <=> (signer # Null)

\* C7: when a ledger read fails during a refresh, the step that handles the
\* failure leaves the catalog snapshot as it was and reports the load error.
RefreshFails(k) == tasks[k].pc \in Loading /\ LoadRejects(k)

DenseIds == \A j \in 1 .. Len(assets) : assets[j].id = j

InstallsWhole(k) ==
    /\ tasks[k].pc \in Loading
    /\ tasks' = RemoveAt(tasks, k)
    /\ Len(assets') = IF tasks[k].pc = "assetCount" THEN 0 ELSE tasks[k].count

C8_SnapshotCompleteAndDense ==
    /\ []DenseIds
    /\ [][assets' # assets => \E k \in TaskIds : InstallsWhole(k)]_vars

\* C8 witness: a two-entry snapshot is on display while another refresh is
\* suspended between its reads with a partial list.
C8_Witness ==
    /\ Len(assets) = 2
    /\ \E k \in TaskIds :
          tasks[k].pc = "getAsset" /\ Len(tasks[k].list) = 1

\* C9: when the submission or the finality wait of a mutating operation
\* rejects, the operation reports its failure, leaves the snapshot unchanged
\* and ends without starting a refresh.
C9_RejectedTouchesNoCatalog ==
    [][\A k \in TaskIds :
          MutationRejects(k) =>
              /\ message' = ErrorMessage(tasks[k].kind)
              /\ assets' = assets
              /\ tasks' = RemoveAt(tasks, k)
              /\ ~loading']_vars

\* C9 witness: an operation has just been rejected while the ledger holds an
\* asset the snapshot on display does not show.
C9_Witness ==
    /\ message \in {MsgRegisterError, MsgTransferError}
    /\ MutationsInFlight = {}
    /\ Len(ledger) > Len(assets)

\* C10 (as claimed): an operation invoked without a contract handle reports
\* Failure{NotConnected}.
MsgNotConnected == Msg("cross", "NotConnected")

C10_UnboundClickReportsNotConnected ==
    ignored = "nocontract" => message = MsgNotConnected

\* C11 (as claimed): whenever an outcome is on display, its severity is Error
\* exactly when the outcome is a Failure (an operation that was refused or
\* whose call rejected) and Success exactly when it is a Success (a call that
\* returned, a verify answering false included).
FailureOutcomes ==
    {MsgNoMetaMask, MsgWalletError, MsgConnectWalletFirst, MsgRegisterError,
     MsgTransferError, MsgVerifyError, MsgLoadError}

C11_SeverityFollowsOutcomeTag ==
    message # NoMessage =>
        (Severity(message) = "error" <=> message \in FailureOutcomes)

\* C12 (as claimed): no mutating operation is started (no submission issued,
\* loading flag not set) with invalid input; for transferOwnership, with an
\* id that neither the ledger nor the snapshot on display has.
OutOfRange(id) == id \notin 1 .. Len(ledger) /\ id \notin 1 .. Len(assets)

InvalidInput(t) == t.kind = "transferOwnership" /\ OutOfRange(t.args.id)

C12_InvalidInputNeverSubmitted ==
    [][StartsMutation => ~InvalidInput(tasks'[Len(tasks')])]_vars

\* C13: a connectWallet call that fails reports its failure and leaves the
\* session as it was: without a provider the message is the no-provider one
\* and no provider handle, signer, address, contract or accountsChanged
\* listener ever exists; when the wallet rejects, the message is the wallet
\* error and the handles, the address and the listeners are unchanged.
Session == <<provider, signer, account, listeners, contract>>

Disconnected ==
    /\ provider = FALSE
    /\ signer = Null
    /\ account = ""
    /\ listeners = 0
    /\ ~contract.bound

C13_FailedConnectLeavesSession ==
    /\ [](~ethereum => Disconnected)
    /\ [][ClickConnectWallet /\ ~ethereum =>
              message' = MsgNoMetaMask /\ Session' = Session]_vars
    /\ [][\A k \in TaskIds :
              ConnectWalletRejects(k) =>
                  message' = MsgWalletError /\ Session' = Session]_vars

\* C13 witness: connectWallet has just reported that no provider is
\* reachable.
C13_Witness == ~ethereum /\ message = MsgNoMetaMask /\ Disconnected

\* C17: in every reachable state the loading flag is set exactly when a
\* registerAsset or transferOwnership handler has started and not yet
\* returned: while it is submitting, awaiting finality or running its
\* post-confirmation refresh, and at no other time.
C17_BusyIffMutationInFlight == loading <=> MutationsInFlight # {}

\* C17 witness: a confirmed operation is running its refresh with the flag
\* still set.
C17_Witness ==
    /\ loading
    /\ \E k \in MutationsInFlight : tasks[k].pc = "getAsset"

\* C20 (as claimed): at most one accountsChanged listener is registered on the
\* provider, so one event reaches setAccount once.
C20_AtMostOneListener == listeners <= 1

\* The step in which the handler tasks[k] completes loadAssets and installs
\* the list it fetched.
Installs(k) ==
    \/ tasks[k].pc = "assetCount" /\ Len(ledger) = 0 /\ AssetCountResolves(k)
    \/ /\ tasks[k].pc = "getAsset" /\ tasks[k].i = tasks[k].count
       /\ GetAssetResolves(k)

RegisterCompletes(k) == tasks[k].kind = "registerAsset" /\ Installs(k)

\* C14 (as claimed): when a registerAsset call completes (confirmed and
\* refreshed), the snapshot has exactly one entry more than the snapshot at
\* the click, and the new asset's id equals the assetCount before the call.
C14_RegisterAddsOneAtPreviousCount ==
    [][\A k \in TaskIds :
          RegisterCompletes(k) =>
              /\ Len(assets') = Len(tasks[k].h.snap) + 1
              /\ assets'[Len(assets')].id = Len(tasks[k].h.before)]_vars

\* C14 (amended): when a registerAsset call completes, the snapshot it
\* installs has exactly one entry more than the ledger had assets before the
\* call, and the new asset is its last entry, with id = that assetCount + 1.
C14_RegisterAddsOneAfterPreviousCount ==
    [][\A k \in TaskIds :
          RegisterCompletes(k) =>
              /\ Len(assets') = Len(tasks[k].h.before) + 1
              /\ assets'[Len(assets')].id = Len(tasks[k].h.before) + 1
              /\ assets'[Len(assets')].name = ledger[Len(ledger)].name]_vars

\* C14 witness: the second registration has completed and installed both
\* assets.
C14_Witness == audit.shown = 2 /\ Len(assets) = 2 /\ ~loading

\* The asset list of a ledger state as loadAssets renders it.
Snapshot(l) ==
    [j \in 1 .. Len(l) |->
        [id |-> j, name |-> l[j].name, hash |-> l[j].hash,
         owner |-> l[j].owner, timestamp |-> l[j].timestamp]]

TransferCompletes(k) == tasks[k].kind = "transferOwnership" /\ Installs(k)

Min(a, b) == IF a <= b THEN a ELSE b

\* C15 (as claimed): when a transferOwnership(id, newOwner) call completes
\* (confirmed and refreshed), the snapshot's entry id has owner newOwner, and
\* every entry the snapshot at the click already had is unchanged, except for
\* the owner of entry id.
C15_TransferFrameAgainstSnapshot ==
    [][\A k \in TaskIds :
          TransferCompletes(k) =>
              LET id == tasks[k].h.args.id
                  to == tasks[k].h.args.to
                  snap == tasks[k].h.snap
              IN  /\ id \in 1 .. Len(assets')
                  /\ assets'[id].owner = to
                  /\ \A j \in 1 .. Min(Len(snap), Len(assets')) :
                         IF j = id
                         THEN assets'[j] = [snap[j] EXCEPT !.owner = to]
                         ELSE assets'[j] = snap[j]]_vars

\* C15 (amended): when a transferOwnership(id, newOwner) call completes, the
\* snapshot it installs is the ledger's asset list from before the call with
\* the owner of asset id replaced by newOwner, and nothing else changed.
C15_TransferFrameAgainstLedger ==
    [][\A k \in TaskIds :
          TransferCompletes(k) =>
              LET id == tasks[k].h.args.id
                  to == tasks[k].h.args.to
                  before == tasks[k].h.before
              IN  /\ id \in 1 .. Len(before)
                  /\ assets' = Snapshot([before EXCEPT ![id].owner = to])]_vars

\* C15 witness: a transfer has completed and the snapshot shows an asset
\* owned by another address than the one that registered it.
C15_Witness ==
    /\ message = MsgTransferred
    /\ ~loading
    /\ tasks = <<>>
    /\ \E j \in 1 .. Len(assets) : assets[j].owner # contract.signer

\* C16: a refresh during which the ledger did not change, completing when
\* the snapshot on display comes from an earlier such refresh and the ledger
\* has not changed since, installs an identical snapshot.
Unchanged(k) == tasks[k].h.seen = {ledger}

C16_RefreshIdempotent ==
    [][\A k \in TaskIds :
          Installs(k) /\ Unchanged(k) /\ audit.clean => assets' = assets]_vars

\* C16 witness: a two-asset snapshot installed by a refresh is on display,
\* the ledger has not changed since that refresh began, and a second refresh
\* is at its last read.
C16_Witness ==
    /\ audit.clean
    /\ Len(assets) = 2
    /\ \E k \in TaskIds :
          /\ tasks[k].kind = "loadAssets"
          /\ tasks[k].pc = "getAsset" /\ tasks[k].i = tasks[k].count
          /\ Unchanged(k)

\* C18 (as claimed): once the refresh of a confirmed registerAsset call has
\* installed a snapshot that contains the registered asset, no later snapshot
\* is without it.
C18_ShownAssetStaysShown == Len(assets) >= audit.shown

\* C19 (as claimed): the list a refresh installs is the asset list of one of
\* the states the ledger was in between the call of loadAssets and the
\* installation.
C19_SnapshotOfOneLedgerState ==
    [][\A k \in TaskIds :
          Installs(k) => \E l \in tasks[k].h.seen : assets' = Snapshot(l)]_vars

====
